---------------------------- MODULE Spec2Model ----------------------------
(* A model of buttersink's S3 back-end (src/S3Store.py) and of its ioctl  *)
(* helpers (src/buttersink/ioctl.py).                                      *)
(*                                                                         *)
(* Seven specifications share the module:                                  *)
(*   Spec      S3Store.receive / _upload / _Uploader, step by step         *)
(*   SpecList  S3Store._listBucket and key naming                          *)
(*   SpecQuery S3Store.hasEdge / S3Store.iterEdges                         *)
(*   SpecCodec Structure.__init__ / write / read                           *)
(*   SpecIoc   Control._iocNumber                                          *)
(*   SpecBuilder Control.IO / IOW / IOWR / IOR                             *)
(*   SpecDevice Device.__enter__ / __exit__ around calls of a Control      *)
(* Text is a sequence of one-character strings; a byte is a number 0..255. *)
EXTENDS Integers, Sequences, FiniteSets, TLC

VARIABLES
    \* ---- Spec: one call of S3Store.receive
    pc,          \* position in receive/_upload
    diff,        \* the diff handed to receive: [uuid, previous, isSelf]
    prefix,      \* S3Store.prefix
    stream,      \* the bytes the source stream will deliver
    pos,         \* how many of them stream.read has delivered
    data,        \* local variable `data` of _upload
    keyName,     \* _Uploader.keyName
    uploader,    \* _Uploader.uploader
    chunkCount,  \* _Uploader.chunkCount
    exc,         \* the exception in flight
    outcome,     \* how receive ended
    log,         \* the calls made on the collaborators, in order
    visible,     \* whether an object is visible at keyName in the bucket
    \* ---- SpecList: the store's graph model and the bucket it lists
    bucket,      \* the keys in the bucket: a sequence of [name, size]
    diffs,       \* S3Store.diffs
    vols,        \* S3Store.vols
    last,        \* what the last operation was and returned
    \* ---- SpecCodec / SpecIoc: the inputs and results of the pure functions
    cin,         \* input
    cout,        \* result
    \* ---- SpecDevice: a Device and the scope it is used in
    fd           \* Device.fd

\* What the operations on the graph model leave alone.
notList    == <<pc, diff, stream, pos, data, keyName, uploader, chunkCount,
                exc, outcome, log, visible, cin, cout, fd>>
\* What the graph queries leave alone, the graph model apart.
notQuery   == <<pc, diff, stream, pos, data, keyName, uploader, chunkCount,
                exc, outcome, log, visible, fd>>
\* What the calls of a Structure leave alone.
notCodec   == <<pc, diff, prefix, stream, pos, data, keyName, uploader,
                chunkCount, exc, outcome, log, visible, bucket, diffs, vols,
                last, fd>>
\* What the making of an operation code leaves alone.
notIoc     == notCodec
\* What the steps of receive leave alone.
notUpload  == <<prefix, bucket, diffs, vols, last, cin, cout, fd>>
\* What the steps of a Device's scope leave alone.
notDevice  == <<diff, prefix, stream, pos, data, keyName, uploader, chunkCount,
                visible, bucket, diffs, vols, last, cin, cout>>
vars       == <<pc, diff, prefix, stream, pos, data, keyName, uploader,
                chunkCount, exc, outcome, log, visible, bucket, diffs, vols,
                last, cin, cout, fd>>

\* --------------------------------------------------------------------------
\* Bounds
\* --------------------------------------------------------------------------

\* Longest source stream, in bytes.
MaxStreamLen == 4

\* Most calls of a Control within one scope of a Device.
MaxIoctls == 3

\* Most keys in the bucket.
MaxKeys == 2

\* Longest text or byte string given as a field's value.
MaxTextLen == 3

\* Bytes per chunk (src/S3Store.py:117 sets 100 * 2**20; scaled down, the
\* loop of _upload only compares lengths against it).
theChunkSize == 2

\* --------------------------------------------------------------------------
\* Values
\* --------------------------------------------------------------------------

\* Python's None. Not a text: a text is a sequence of one-character strings.
None == <<"None">>

\* str(None), as "%s" formats it.
NoneText == <<"N", "o", "n", "e">>

RECURSIVE SeqsUpTo(_, _)
\* All sequences over S of length at most n.
SeqsUpTo(S, n) ==
    IF n = 0 THEN {<<>>}
    ELSE LET shorter == SeqsUpTo(S, n - 1)
         IN  shorter \cup {Append(s, x) : s \in {t \in shorter : Len(t) = n - 1}, x \in S}

\* The volume identifiers of the model.
VolIds == {<<"V">>, <<"W">>}

\* The key prefixes of the model: plain ones, and ones holding a character
\* that the regular-expression syntax gives a meaning ("+").
Prefixes == {<<>>, <<"s", "/">>, <<"s", "+">>, <<"s", "+", "/">>, <<"+">>}

\* The byte sizes of the objects of the bucket.
ObjectSizes == {1, 2^10}

\* The bytes a stream is made of.
StreamBytes == {0, 1}

\* --------------------------------------------------------------------------
\* S3Store.receive: key naming
\* --------------------------------------------------------------------------

\* "%s" of an identifier or of None.
Str(v) == IF v = None THEN NoneText ELSE v

\* name = "%s%s/%s" % (self.prefix, diff.uuid, diff.previous)
KeyName(p, uuid, previous) == p \o Str(uuid) \o <<"/">> \o Str(previous)

\* --------------------------------------------------------------------------
\* S3Store._listBucket: the pattern and its match
\* --------------------------------------------------------------------------

\* re.compile of "^%s(?P<to>[^/]*)/(?P<from>.*)$" % prefix. The prefix is put
\* into the pattern as it is, so its characters are pattern syntax: "+"
\* repeats the character before it, and is an error ("nothing to repeat",
\* "multiple repeat") with none before it or after another "+".
Compiles(p) ==
    \A i \in 1..Len(p) : p[i] = "+" => (i > 1 /\ p[i - 1] # "+")

\* How many times character c stands in s from position j + 1 on, in a row.
RECURSIVE Run(_, _, _)
Run(c, s, j) ==
    IF j + 1 <= Len(s) /\ s[j + 1] = c THEN 1 + Run(c, s, j + 1) ELSE 0

\* The positions of s at which a match of the pattern p[i..], begun after
\* position j, can end, in the order the backtracking matcher tries them
\* ("+" is greedy: the longest repetition first).
RECURSIVE PrefixEnds(_, _, _, _)
RECURSIVE PlusEnds(_, _, _, _, _)
PlusEnds(p, i, s, j, k) ==
    IF k = 0 THEN <<>>
    ELSE PrefixEnds(p, i, s, j + k) \o PlusEnds(p, i, s, j, k - 1)

PrefixEnds(p, i, s, j) ==
    IF i > Len(p) THEN <<j>>
    ELSE IF i + 1 <= Len(p) /\ p[i + 1] = "+"
         THEN PlusEnds(p, i + 2, s, j, Run(p[i], s, j))
         ELSE IF j + 1 <= Len(s) /\ s[j + 1] = p[i]
              THEN PrefixEnds(p, i + 1, s, j + 1)
              ELSE <<>>

\* The first "/" of s after position j, or 0.
RECURSIVE FirstSlash(_, _)
FirstSlash(s, j) ==
    IF j + 1 > Len(s) THEN 0
    ELSE IF s[j + 1] = "/" THEN j + 1 ELSE FirstSlash(s, j + 1)

\* Match of "(?P<to>[^/]*)/(?P<from>.*)$" after position j of s: `to` takes
\* every character up to the first "/", `from` the rest.
RestMatch(s, j) ==
    LET k == FirstSlash(s, j)
    IN  IF k = 0 THEN [ok |-> FALSE, to |-> <<>>, from |-> <<>>]
        ELSE [ok |-> TRUE, to |-> SubSeq(s, j + 1, k - 1),
              from |-> SubSeq(s, k + 1, Len(s))]

\* pattern.match(name): the first end of the prefix part, in backtracking
\* order, after which the rest matches.
RECURSIVE FirstMatch(_, _, _)
FirstMatch(s, ends, n) ==
    IF n > Len(ends) THEN [ok |-> FALSE, to |-> <<>>, from |-> <<>>]
    ELSE IF RestMatch(s, ends[n]).ok THEN RestMatch(s, ends[n])
         ELSE FirstMatch(s, ends, n + 1)

Match(p, name) == FirstMatch(name, PrefixEnds(p, 1, name, 0), 1)

\* The size with the division left out.
SizeInBytes(bytes) == [num |-> bytes, den |-> 1]

\* key.size / (2**20) under `from __future__ import division`: a true
\* division, kept as the fraction num/den.
SizeOf(bytes) == [num |-> bytes, den |-> 2^20]

\* Lines 54-60: the diff a key is parsed into (the key's name must match).
DiffOf(p, key) ==
    LET m == Match(p, key.name)
    IN  [from |-> IF m.from = NoneText THEN None ELSE m.from,
         to |-> m.to, size |-> SizeOf(key.size), path |-> m.to]

\* bucket.list(prefix=p): the keys whose name starts with p, in bucket order.
StartsWith(s, p) == Len(s) >= Len(p) /\ SubSeq(s, 1, Len(p)) = p
Listed(b, p) == SelectSeq(b, LAMBDA key : StartsWith(key.name, p))

\* The first key of keys whose name the pattern does not match; Len + 1 if
\* every name matches.
RECURSIVE FirstBad(_, _, _)
FirstBad(p, keys, i) ==
    IF i > Len(keys) THEN i
    ELSE IF Match(p, keys[i].name).ok THEN FirstBad(p, keys, i + 1) ELSE i

\* self.diffs after the loop of lines 53-60 has taken the first n keys.
DiffsOf(p, keys, n) == [i \in 1..n |-> DiffOf(p, keys[i])]

\* Line 64: self.vols, one entry per `to` of the diffs.
VolsOf(ds) == {[uuid |-> ds[i].to, path |-> ds[i].to] : i \in 1..Len(ds)}

\* self.diffs / self.vols: None, or a value.
Unset(empty) == [isNone |-> TRUE, val |-> empty]
Set(v) == [isNone |-> FALSE, val |-> v]

\* hasEdge with the test of `from` left out.
HasEdgeAnyFrom(ds, toUUID, fromUUID) ==
    \E i \in 1..Len(ds) : ds[i].to = toUUID

\* S3Store.hasEdge
HasEdge(ds, toUUID, fromUUID) ==
    \E i \in 1..Len(ds) : ds[i].from = fromUUID /\ ds[i].to = toUUID

\* iterEdges with the test of `from` left out.
IterEdgesUnfiltered(ds, fromVol) ==
    [i \in 1..Len(ds) |-> [to |-> ds[i].to, size |-> ds[i].size]]

\* S3Store.iterEdges
IterEdges(ds, fromVol) ==
    LET sel == SelectSeq(ds, LAMBDA d : d.from = fromVol)
    IN  [i \in 1..Len(sel) |-> [to |-> sel[i].to, size |-> sel[i].size]]

\* --------------------------------------------------------------------------
\* ioctl.py: values
\* --------------------------------------------------------------------------

\* A Python value handed to or returned by a Structure: None, an integer, a
\* byte string (str), a text (unicode, a sequence of code points) or a dict
\* or named tuple of values, in field order.
VNone == [k |-> "none", n |-> 0, b |-> <<>>, sub |-> <<>>]
VInt(n) == [k |-> "int", n |-> n, b |-> <<>>, sub |-> <<>>]
VBytes(b) == [k |-> "bytes", n |-> 0, b |-> b, sub |-> <<>>]
VText(b) == [k |-> "text", n |-> 0, b |-> b, sub |-> <<>>]
VDict(sub) == [k |-> "dict", n |-> 0, b |-> <<>>, sub |-> sub]

\* Python's truth value of v, as `or` tests it.
Truthy(v) ==
    CASE v.k = "none" -> FALSE
      [] v.k = "int" -> v.n # 0
      [] v.k = "dict" -> v.sub # <<>>
      [] OTHER -> v.b # <<>>

\* unicode.encode('utf-8'), for code points below 2048.
RECURSIVE Utf8Encode(_)
Utf8Encode(cps) ==
    IF cps = <<>> THEN <<>>
    ELSE LET c == Head(cps)
         IN  (IF c < 128 THEN <<c>> ELSE <<192 + (c \div 64), 128 + (c % 64)>>)
               \o Utf8Encode(Tail(cps))

\* str.decode('utf-8'), for one- and two-byte sequences: fails on a lead
\* byte with no continuation byte after it and on a stray continuation byte.
RECURSIVE Utf8Decode(_)
Utf8Decode(bs) ==
    IF bs = <<>> THEN [ok |-> TRUE, cps |-> <<>>]
    ELSE LET b == Head(bs)
         IN  IF b < 128
             THEN LET r == Utf8Decode(Tail(bs))
                  IN  [ok |-> r.ok, cps |-> <<b>> \o r.cps]
             ELSE IF b >= 194 /\ b <= 223 /\ Len(bs) >= 2
                     /\ bs[2] >= 128 /\ bs[2] <= 191
                  THEN LET r == Utf8Decode(Tail(Tail(bs)))
                       IN  [ok |-> r.ok,
                            cps |-> <<(b - 192) * 64 + (bs[2] - 128)>> \o r.cps]
                  ELSE [ok |-> FALSE, cps |-> <<>>]

\* s.partition(chr(0))[0]: s up to its first 0.
RECURSIVE UpToNull(_)
UpToNull(s) ==
    IF s = <<>> \/ Head(s) = 0 THEN <<>> ELSE <<Head(s)>> \o UpToNull(Tail(s))

\* t.writeString
writeString(v) ==
    IF v.k = "none" THEN VBytes(<<0>>) ELSE VBytes(Utf8Encode(v.b) \o <<0>>)

\* t.readString: the result, or a UnicodeDecodeError.
readString(v) ==
    LET d == Utf8Decode(v.b)
    IN  [ok |-> d.ok, v |-> VText(UpToNull(d.cps))]

\* --------------------------------------------------------------------------
\* ioctl.py: Structure
\* --------------------------------------------------------------------------

\* A field as given to Structure(...): (typeDef, name, len, reader, writer).
\* typeDef is a format character or "Structure" with the nested structure's
\* fields in sub; rw is "string" for reader=t.readString,
\* writer=t.writeString and "none" for no reader and writer. A field's name
\* is its place in the structure.
Field(typeDef, len, rw) == [typeDef |-> typeDef, len |-> len, rw |-> rw, sub |-> <<>>]
Nested(sub) == [typeDef |-> "Structure", len |-> 1, rw |-> "none", sub |-> sub]

\* struct.calcsize of a format character.
CalcSize(ch) == IF ch = "H" THEN 2 ELSE 1

\* Structure.defaults
Defaults(ch) ==
    CASE ch \in {"s", "p"} -> VBytes(<<>>)
      [] ch = "c" -> VBytes(<<0>>)
      [] OTHER -> VInt(0)

\* One item of a struct format: a count and a format character ("8s", "H").
Item(n, ch) == [n |-> n, ch |-> ch]

\* Structure._parseDefinition with Structure.__init__'s use of it: the
\* field's format and its type object (the skip type, a _TypeWriter or a
\* nested Structure with its parsed fields).
RECURSIVE ParseFields(_)
ParseDefinition(f) ==
    IF f.typeDef = "Structure"
    THEN LET sub == ParseFields(f.sub)
         IN  [fmt |-> sub.fmt, type |-> "Structure", default |-> VNone,
              rw |-> "none", types |-> sub.types]
    ELSE LET ch == IF f.len # 1 /\ f.typeDef \notin {"x", "s", "p", "P"}
                   THEN "s" ELSE f.typeDef
             n == IF f.len # 1 THEN f.len * CalcSize(f.typeDef) ELSE 1
         IN  IF ch = "x"
             THEN [fmt |-> <<Item(n, ch)>>, type |-> "skip", default |-> VNone,
                   rw |-> "none", types |-> <<>>]
             ELSE [fmt |-> <<Item(n, ch)>>, type |-> "writer",
                   default |-> Defaults(ch), rw |-> f.rw, types |-> <<>>]

\* Structure.__init__: the format and the types of the fields, in order.
ParseFields(fields) ==
    IF fields = <<>> THEN [fmt |-> <<>>, types |-> <<>>]
    ELSE LET h == ParseDefinition(Head(fields))
             t == ParseFields(Tail(fields))
         IN  [fmt |-> h.fmt \o t.fmt,
              types |-> <<[type |-> h.type, default |-> h.default, rw |-> h.rw,
                           types |-> h.types]>> \o t.types]

\* The bytes one format item takes ("=": standard sizes, no padding).
ItemSize(it) == IF it.ch \in {"s", "x"} THEN it.n ELSE it.n * CalcSize(it.ch)

\* Structure.size: struct.Struct("=" + fmt).size
RECURSIVE StructSize(_)
StructSize(fmt) ==
    IF fmt = <<>> THEN 0 ELSE ItemSize(Head(fmt)) + StructSize(Tail(fmt))

\* Structure.__init__ with a check that refuses a len other than 1 on an
\* integer wider than a byte.
StructNewChecked(fields) ==
    IF fields = <<>> \/ \E i \in 1..Len(fields) :
                           fields[i].len # 1 /\ fields[i].typeDef = "H"
    THEN [ok |-> FALSE, err |-> "ValueError", size |-> 0]
    ELSE [ok |-> TRUE, err |-> "none", size |-> StructSize(ParseFields(fields).fmt)]

\* Structure.__init__: the structure with its format and size. No check of a
\* field's len against its typeDef is made; the only failure is that of
\* unpacking unzip([]) into (names, formats, types) when there is no field.
StructNew(fields) ==
    IF fields = <<>> THEN [ok |-> FALSE, err |-> "ValueError", size |-> 0]
    ELSE [ok |-> TRUE, err |-> "none", size |-> StructSize(ParseFields(fields).fmt)]

\* _TypeWriter.yieldArgs: self._writer(arg) or self._default
WriterArg(t, arg) ==
    LET w == IF t.rw = "string" THEN writeString(arg) ELSE arg
    IN  IF Truthy(w) THEN w ELSE t.default

\* keyArgs.get(name, None), the name being a place.
Get(keyArgs, i) == IF i <= Len(keyArgs.sub) THEN keyArgs.sub[i] ELSE VNone

\* Structure.yieldArgs from field i on: the flat list of arguments, or the
\* AttributeError of `keyArgs.get` when keyArgs is None.
RECURSIVE YieldArgs(_, _, _)
YieldArgs(types, keyArgs, i) ==
    IF i > Len(types) THEN [ok |-> TRUE, args |-> <<>>]
    ELSE IF keyArgs.k # "dict" THEN [ok |-> FALSE, args |-> <<>>]
    ELSE LET t == types[i]
             arg == Get(keyArgs, i)
             own == CASE t.type = "skip" -> [ok |-> TRUE, args |-> <<>>]
                      [] t.type = "writer" -> [ok |-> TRUE, args |-> <<WriterArg(t, arg)>>]
                      [] OTHER -> YieldArgs(t.types, arg, 1)
             rest == YieldArgs(types, keyArgs, i + 1)
         IN  [ok |-> own.ok /\ rest.ok, args |-> own.args \o rest.args]

\* n zero bytes.
Zeros(n) == [i \in 1..n |-> 0]

\* b cut to n bytes, or filled with zero bytes up to n.
Fit(b, n) == IF Len(b) >= n THEN SubSeq(b, 1, n) ELSE b \o Zeros(n - Len(b))

\* struct pack of one argument under one format item: its bytes (native
\* byte order: little-endian), or a struct.error for a value of the wrong
\* type or range.
PackItem(it, v) ==
    CASE it.ch = "B" -> [ok |-> v.k = "int" /\ v.n >= 0 /\ v.n <= 255, bytes |-> <<v.n>>]
      [] it.ch = "H" -> [ok |-> v.k = "int" /\ v.n >= 0 /\ v.n <= 65535,
                         bytes |-> <<v.n % 256, v.n \div 256>>]
      [] it.ch = "c" -> [ok |-> v.k = "bytes" /\ Len(v.b) = 1, bytes |-> v.b]
      [] OTHER -> [ok |-> v.k = "bytes", bytes |-> Fit(v.b, it.n)]

\* struct.pack_into(args, 0, *values): the bytes, or a struct.error (also
\* when the number of values is not the number the format takes).
RECURSIVE Pack(_, _)
Pack(fmt, args) ==
    IF fmt = <<>> THEN [ok |-> args = <<>>, bytes |-> <<>>]
    ELSE IF Head(fmt).ch = "x"
         THEN LET r == Pack(Tail(fmt), args)
              IN  [ok |-> r.ok, bytes |-> Zeros(Head(fmt).n) \o r.bytes]
         ELSE IF args = <<>> THEN [ok |-> FALSE, bytes |-> <<>>]
              ELSE LET h == PackItem(Head(fmt), Head(args))
                       r == Pack(Tail(fmt), Tail(args))
                   IN  [ok |-> h.ok /\ r.ok, bytes |-> h.bytes \o r.bytes]

\* Structure.write: the buffer, or the failure of yieldArgs or of the pack.
StructWrite(fields, keyArgs) ==
    LET p == ParseFields(fields)
        y == YieldArgs(p.types, keyArgs, 1)
        b == Pack(p.fmt, y.args)
    IN  IF ~y.ok THEN [ok |-> FALSE, err |-> "AttributeError", data |-> <<>>]
        ELSE IF ~b.ok THEN [ok |-> FALSE, err |-> "struct.error", data |-> <<>>]
        ELSE [ok |-> TRUE, err |-> "none", data |-> b.bytes]

\* struct.unpack_from(data, 0): one value per format item that is no padding.
RECURSIVE Unpack(_, _)
Unpack(fmt, bytes) ==
    IF fmt = <<>> THEN <<>>
    ELSE LET it == Head(fmt)
             n == ItemSize(it)
             own == SubSeq(bytes, 1, n)
             rest == Unpack(Tail(fmt), SubSeq(bytes, n + 1, Len(bytes)))
         IN  CASE it.ch = "x" -> rest
               [] it.ch = "B" -> <<VInt(own[1])>> \o rest
               [] it.ch = "H" -> <<VInt(own[1] + 256 * own[2])>> \o rest
               [] OTHER -> <<VBytes(own)>> \o rest

\* _TypeWriter.popValue: self._reader(argList.pop())
ReaderValue(t, v) ==
    IF t.rw = "string" THEN readString(v) ELSE [ok |-> TRUE, v |-> v]

\* list.reverse()
RECURSIVE Reverse(_)
Reverse(s) == IF s = <<>> THEN <<>> ELSE Append(Reverse(Tail(s)), Head(s))

\* argList.pop(): the last element, and the list without it.
Last(s) == s[Len(s)]
Front(s) == SubSeq(s, 1, Len(s) - 1)

\* Mutant of ReadOrder: the list is not reversed, pop() takes the values
\* last to first.
ReadOrderNotReversed(args) == args

\* The order in which Structure.read hands the unpacked values to popValue:
\* args.reverse(), so that pop() takes them first to last.
ReadOrder(args) == Reverse(args)

\* Structure.popValue from field i on, popping from args: the values of the
\* fields, what is left of args, and whether no reader failed.
RECURSIVE PopValue(_, _, _)
PopValue(types, args, i) ==
    IF i > Len(types) THEN [ok |-> TRUE, vals |-> <<>>, left |-> args]
    ELSE LET t == types[i]
             own == CASE t.type = "skip" -> [ok |-> TRUE, vals |-> <<VNone>>, left |-> args]
                      [] t.type = "writer" ->
                            [ok |-> ReaderValue(t, Last(args)).ok,
                             vals |-> <<ReaderValue(t, Last(args)).v>>,
                             left |-> Front(args)]
                      [] OTHER ->
                            LET s == PopValue(t.types, args, 1)
                            IN  [ok |-> s.ok, vals |-> <<VDict(s.vals)>>, left |-> s.left]
             rest == PopValue(types, own.left, i + 1)
         IN  [ok |-> own.ok /\ rest.ok, vals |-> own.vals \o rest.vals,
              left |-> rest.left]

\* Structure.read: the named tuple, or the reader's error.
StructRead(fields, bytes) ==
    LET p == ParseFields(fields)
        r == PopValue(p.types, ReadOrder(Unpack(p.fmt, bytes)), 1)
    IN  IF r.ok THEN [ok |-> TRUE, err |-> "none", value |-> VDict(r.vals)]
        ELSE [ok |-> FALSE, err |-> "UnicodeDecodeError", value |-> VNone]

\* --------------------------------------------------------------------------
\* ioctl.py: the operation code
\* --------------------------------------------------------------------------

NRBITS == 8
TYPEBITS == 8
SIZEBITS == 14
DIRBITS == 2

NRMASK == 2^NRBITS - 1
TYPEMASK == 2^TYPEBITS - 1
SIZEMASK == 2^SIZEBITS - 1
DIRMASK == 2^DIRBITS - 1

NRSHIFT == 0
TYPESHIFT == NRSHIFT + NRBITS

\* Mutant of SIZESHIFT: the size field starts one bit too low.
SIZESHIFT_Low == TYPESHIFT + TYPEBITS - 1

SIZESHIFT == TYPESHIFT + TYPEBITS
DIRSHIFT == SIZESHIFT + SIZEBITS

NONE == 0
WRITE == 1
READ == 2

\* A Python integer >= 0 as its binary digits, lowest first, no leading
\* zero digit (Python's integers have no width: a code takes up to 32 bits).
RECURSIVE Bits(_)
Bits(n) == IF n = 0 THEN <<>> ELSE <<n % 2>> \o Bits(n \div 2)

\* The number whose digits are b.
RECURSIVE Num(_)
Num(b) == IF b = <<>> THEN 0 ELSE Head(b) + 2 * Num(Tail(b))

Bit(b, i) == IF i <= Len(b) THEN b[i] ELSE 0

\* b with its leading zero digits dropped.
RECURSIVE Trim(_)
Trim(b) == IF b = <<>> \/ Last(b) = 1 THEN b ELSE Trim(Front(b))

\* x << n, x >> n, x | y, x & y
Shl(x, n) == IF x = <<>> THEN <<>> ELSE Zeros(n) \o x
Shr(x, n) == SubSeq(x, n + 1, Len(x))
BitOr(x, y) ==
    [i \in 1..(IF Len(x) > Len(y) THEN Len(x) ELSE Len(y)) |->
        IF Bit(x, i) = 1 \/ Bit(y, i) = 1 THEN 1 ELSE 0]
BitAnd(x, y) ==
    Trim([i \in 1..(IF Len(x) > Len(y) THEN Len(x) ELSE Len(y)) |->
            IF Bit(x, i) = 1 /\ Bit(y, i) = 1 THEN 1 ELSE 0])

\* Control._iocNumber
iocNumber(dir, type, nr, size) ==
    BitOr(BitOr(BitOr(Shl(Bits(dir), DIRSHIFT), Shl(Bits(type), TYPESHIFT)),
                Shl(Bits(nr), NRSHIFT)),
          Shl(Bits(size), SIZESHIFT))

\* --------------------------------------------------------------------------
\* Spec: S3Store.receive, S3Store._upload, _Uploader
\* --------------------------------------------------------------------------

Call(op, num, bytes, ok) == [op |-> op, num |-> num, bytes |-> bytes, ok |-> ok]

Running == [kind |-> "running", err |-> "none"]
Returned == [kind |-> "returned", err |-> "none"]
Raised(e) == [kind |-> "raised", err |-> e]

\* A read that returns a single byte however many are asked for.
ReadChunkShort(s, p, n) ==
    SubSeq(s, p + 1, IF p + 1 <= Len(s) THEN p + 1 ELSE Len(s))

\* stream.read(theChunkSize): at most theChunkSize bytes from the position.
ReadChunk(s, p, n) ==
    SubSeq(s, p + 1, IF p + n <= Len(s) THEN p + n ELSE Len(s))

InitUpload ==
    /\ pc = "receive"
    /\ diff \in [uuid : VolIds, previous : VolIds \cup {None}, isSelf : BOOLEAN]
    /\ stream \in SeqsUpTo(StreamBytes, MaxStreamLen)
    /\ pos = 0
    /\ data = <<>>
    /\ keyName = None
    /\ uploader = "None"
    /\ chunkCount = -1
    /\ exc = "none"
    /\ outcome = Running
    /\ log = <<>>
    /\ visible = FALSE
    /\ fd = Unset(0)

\* Mutant of IsSelfTransfer: the test is missing.
IsSelfTransferMissing(d) == FALSE

\* receive, line 92: `diff.diffSink == self`.
IsSelfTransfer(d) == d.isSelf

\* receive, lines 92-93: a diff of this very store is left alone.
ReceiveSelf ==
    /\ pc = "receive"
    /\ IsSelfTransfer(diff)
    /\ pc' = "done"
    /\ outcome' = Returned
    /\ UNCHANGED <<diff, stream, pos, data, keyName, uploader, chunkCount, exc,
                   log, visible, notUpload>>

\* receive, lines 95-97: open the source stream, name the key.
ReceiveSend ==
    /\ pc = "receive"
    /\ ~IsSelfTransfer(diff)
    /\ \/ /\ log' = Append(log, Call("send", 0, <<>>, TRUE))
          /\ keyName' = KeyName(prefix, diff.uuid, diff.previous)
          /\ pc' = "enter"
          /\ UNCHANGED outcome
       \/ /\ log' = Append(log, Call("send", 0, <<>>, FALSE))
          /\ pc' = "done"
          /\ outcome' = Raised("SendError")
          /\ UNCHANGED keyName
    /\ UNCHANGED <<diff, stream, pos, data, uploader, chunkCount, exc, visible, notUpload>>

\* _Uploader.__enter__
Enter ==
    /\ pc = "enter"
    /\ \/ /\ log' = Append(log, Call("initiate_multipart_upload", 0, <<>>, TRUE))
          /\ uploader' = "mp"
          /\ chunkCount' = 0
          /\ pc' = "read"
          /\ UNCHANGED outcome
       \/ /\ log' = Append(log, Call("initiate_multipart_upload", 0, <<>>, FALSE))
          /\ pc' = "done"
          /\ outcome' = Raised("InitiateError")
          /\ UNCHANGED <<uploader, chunkCount>>
    /\ UNCHANGED <<diff, stream, pos, data, keyName, exc, visible, notUpload>>

\* Mutant of ScopeExit: the body is not in a `with`, an exception leaves
\* _upload without passing through __exit__.
ScopeExitNoWith(e) == IF e = "none" THEN "exit" ELSE "done"

\* The `with` statement of _upload: however the body ends, with exception e
\* in flight or with none, control goes to _Uploader.__exit__.
ScopeExit(e) == "exit"

\* _upload, lines 111-113: read a chunk; no data ends the loop.
Read ==
    /\ pc = "read"
    /\ \/ LET d == ReadChunk(stream, pos, theChunkSize)
          IN  /\ log' = Append(log, Call("read", 0, d, TRUE))
              /\ data' = d
              /\ pos' = pos + Len(d)
              /\ pc' = IF d = <<>> THEN ScopeExit("none") ELSE "upload"
              /\ UNCHANGED exc
       \/ /\ log' = Append(log, Call("read", 0, <<>>, FALSE))
          /\ exc' = "ReadError"
          /\ pc' = ScopeExit("ReadError")
          /\ UNCHANGED <<data, pos>>
    /\ UNCHANGED <<diff, stream, keyName, uploader, chunkCount, outcome, visible, notUpload>>

\* Mutant of NextPart: the count is not advanced.
NextPartStuck(n) == IF n = 0 THEN 1 ELSE n

\* The part number _Uploader.upload gives the chunk: chunkCount += 1.
NextPart(n) == n + 1

\* _Uploader.upload
Upload ==
    /\ pc = "upload"
    /\ chunkCount' = NextPart(chunkCount)
    /\ \/ /\ log' = Append(log, Call("upload_part", chunkCount', data, TRUE))
          /\ pc' = "read"
          /\ UNCHANGED exc
       \/ /\ log' = Append(log, Call("upload_part", chunkCount', data, FALSE))
          /\ exc' = "UploadError"
          /\ pc' = ScopeExit("UploadError")
    /\ UNCHANGED <<diff, stream, pos, data, keyName, uploader, outcome, visible, notUpload>>

\* An interrupt (KeyboardInterrupt) raised in the loop body between two calls.
Interrupt ==
    /\ pc \in {"read", "upload"}
    /\ exc' = "KeyboardInterrupt"
    /\ pc' = ScopeExit("KeyboardInterrupt")
    /\ UNCHANGED <<diff, stream, pos, data, keyName, uploader, chunkCount,
                   outcome, log, visible, notUpload>>

\* Mutant of Commits: an interrupt is not taken for an exception.
CommitsOnInterrupt(e) == e \in {"none", "KeyboardInterrupt"}

\* Mutant of Commits: the test is inverted.
CommitsInverted(e) == e # "none"

\* Mutant of Commits: only some exceptions cancel.
CommitsOnUploadError(e) == e \in {"none", "UploadError"}

\* Whether __exit__ commits: `if exceptionType is None`.
Commits(e) == e = "none"

\* _Uploader.__exit__
Exit ==
    /\ pc = "exit"
    /\ pc' = "done"
    /\ IF Commits(exc)
       THEN \/ /\ log' = Append(log, Call("complete_upload", 0, <<>>, TRUE))
               /\ visible' = TRUE
               /\ uploader' = "None"
               /\ outcome' = Returned
            \/ /\ log' = Append(log, Call("complete_upload", 0, <<>>, FALSE))
               /\ visible' \in BOOLEAN
               /\ outcome' = Raised("CompleteError")
               /\ UNCHANGED uploader
       ELSE \/ /\ log' = Append(log, Call("cancel_upload", 0, <<>>, TRUE))
               /\ uploader' = "None"
               /\ outcome' = Raised(exc)
               /\ UNCHANGED visible
            \/ /\ log' = Append(log, Call("cancel_upload", 0, <<>>, FALSE))
               /\ outcome' = Raised("CancelError")
               /\ UNCHANGED <<uploader, visible>>
    /\ UNCHANGED <<diff, stream, pos, data, keyName, chunkCount, exc, notUpload>>

InitIdleList ==
    /\ bucket = <<>>
    /\ diffs = Unset(<<>>)
    /\ vols = Unset({})
    /\ last = None

InitIdlePure ==
    /\ cin = None
    /\ cout = None

\* A store exists only if the listing of its __init__ went through, so its
\* prefix compiled.
Init ==
    /\ InitUpload
    /\ prefix \in {p \in Prefixes : Compiles(p)}
    /\ InitIdleList
    /\ InitIdlePure

Next ==
    \/ ReceiveSelf
    \/ ReceiveSend
    \/ Enter
    \/ Read
    \/ Upload
    \/ Interrupt
    \/ Exit

Spec == Init /\ [][Next]_vars

\* --------------------------------------------------------------------------
\* SpecList: S3Store.__init__ / _listBucket / receive against a bucket
\* --------------------------------------------------------------------------

\* The names the keys of the bucket may have under prefix p: the names
\* receive gives, a name with no "/" after the prefix, a name outside it.
KeyNames(p) ==
    {KeyName(p, t, f) : t \in VolIds, f \in VolIds \cup {None}}
      \cup {p \o <<"V">>, <<"x">>}

\* The buckets: at most MaxKeys keys, no two of the same name.
Buckets(p) ==
    {b \in SeqsUpTo([name : KeyNames(p), size : ObjectSizes], MaxKeys) :
        \A i, j \in 1..Len(b) : b[i].name = b[j].name => i = j}

Result(op, ok, err, uuid, previous) ==
    [op |-> op, ok |-> ok, err |-> err, uuid |-> uuid, previous |-> previous]

\* The state at line 38 of __init__, before the first listing.
InitList ==
    /\ prefix \in Prefixes
    /\ bucket \in Buckets(prefix)
    /\ diffs = Unset(<<>>)
    /\ vols = Unset({})
    /\ last = Result("init", TRUE, "none", None, None)

InitIdleUpload ==
    /\ pc = "idle"
    /\ diff = [uuid |-> None, previous |-> None, isSelf |-> FALSE]
    /\ stream = <<>>
    /\ pos = 0
    /\ data = <<>>
    /\ keyName = None
    /\ uploader = "None"
    /\ chunkCount = -1
    /\ exc = "none"
    /\ outcome = Running
    /\ log = <<>>
    /\ visible = FALSE
    /\ fd = Unset(0)

\* self.diffs when the loop of _listBucket is left after n keys: line 52
\* has emptied the list, line 59 has appended n diffs.
PartialDiffs(p, keys, n) == Set(DiffsOf(p, keys, n))

\* _listBucket, the pattern does not compile: line 49 raises.
ListBucketCompileError ==
    /\ ~Compiles(prefix)
    /\ last' = Result("list", FALSE, "CompileError", last.uuid, last.previous)
    /\ UNCHANGED <<prefix, bucket, diffs, vols, notList>>

\* _listBucket, every listed name matches and the listing does not fail.
ListBucketOk ==
    LET keys == Listed(bucket, prefix)
    IN  /\ Compiles(prefix)
        /\ FirstBad(prefix, keys, 1) > Len(keys)
        /\ diffs' = Set(DiffsOf(prefix, keys, Len(keys)))
        /\ vols' = Set(VolsOf(diffs'.val))
        /\ last' = Result("list", TRUE, "none", last.uuid, last.previous)
        /\ UNCHANGED <<prefix, bucket, notList>>

\* _listBucket, a listed name does not match: pattern.match returns None
\* and line 54 raises.
ListBucketParseError ==
    LET keys == Listed(bucket, prefix)
        bad == FirstBad(prefix, keys, 1)
    IN  /\ Compiles(prefix)
        /\ bad <= Len(keys)
        /\ diffs' = PartialDiffs(prefix, keys, bad - 1)
        /\ last' = Result("list", FALSE, "AttributeError", last.uuid, last.previous)
        /\ UNCHANGED <<prefix, bucket, vols, notList>>

\* _listBucket, bucket.list raises after it has yielded n keys.
ListBucketListError ==
    LET keys == Listed(bucket, prefix)
        bad == FirstBad(prefix, keys, 1)
    IN  /\ Compiles(prefix)
        /\ \E n \in 0..Len(keys) :
              /\ n < bad
              /\ diffs' = PartialDiffs(prefix, keys, n)
        /\ last' = Result("list", FALSE, "ListError", last.uuid, last.previous)
        /\ UNCHANGED <<prefix, bucket, vols, notList>>

\* The bucket after an object of the given name and size is committed.
Put(b, name, size) ==
    IF \E i \in 1..Len(b) : b[i].name = name
    THEN [i \in 1..Len(b) |->
            IF b[i].name = name THEN [name |-> name, size |-> size] ELSE b[i]]
    ELSE Append(b, [name |-> name, size |-> size])

\* receive as one step, on a store that was constructed: the diff is named
\* and uploaded; the upload is committed, or it fails and nothing is
\* committed.
ReceiveDiff ==
    /\ ~vols.isNone
    /\ \E uuid \in VolIds, previous \in VolIds \cup {None} :
          LET name == KeyName(prefix, uuid, previous)
          IN  \/ /\ \E size \in ObjectSizes : bucket' = Put(bucket, name, size)
                 /\ Len(bucket') <= MaxKeys
                 /\ last' = Result("receive", TRUE, "none", uuid, previous)
              \/ /\ bucket' = bucket
                 /\ last' = Result("receive", FALSE, "TransferError", None, None)
    /\ UNCHANGED <<prefix, diffs, vols, notList>>

InitOfList ==
    /\ InitList
    /\ InitIdleUpload
    /\ InitIdlePure

NextList ==
    \/ ListBucketCompileError
    \/ ListBucketOk
    \/ ListBucketParseError
    \/ ListBucketListError
    \/ ReceiveDiff

SpecList == InitOfList /\ [][NextList]_vars

\* --------------------------------------------------------------------------
\* SpecQuery: S3Store.hasEdge / S3Store.iterEdges on a constructed store
\* --------------------------------------------------------------------------

\* A query and its arguments; what it returned.
Query(op, toUUID, fromUUID) == [op |-> op, to |-> toUUID, from |-> fromUUID]
Answer(found, edges) == [found |-> found, edges |-> edges]

\* The store after __init__ returned: the prefix compiled, every listed
\* name matched, and lines 52-64 built diffs and vols from the listing.
InitQuery ==
    /\ prefix \in {p \in Prefixes : Compiles(p)}
    /\ bucket \in {b \in Buckets(prefix) :
                     FirstBad(prefix, Listed(b, prefix), 1) > Len(Listed(b, prefix))}
    /\ diffs = Set(DiffsOf(prefix, Listed(bucket, prefix), Len(Listed(bucket, prefix))))
    /\ vols = Set(VolsOf(diffs.val))
    /\ last = Result("list", TRUE, "none", None, None)
    /\ cin = Query("none", None, None)
    /\ cout = Answer(FALSE, <<>>)

\* found = store.hasEdge(toUUID, fromUUID)
hasEdge ==
    /\ \E toUUID \in VolIds, fromUUID \in VolIds \cup {None} :
          /\ cin' = Query("hasEdge", toUUID, fromUUID)
          /\ cout' = Answer(HasEdge(diffs.val, toUUID, fromUUID), <<>>)
    /\ UNCHANGED <<prefix, bucket, diffs, vols, last, notQuery>>

\* edges = list(store.iterEdges(fromVol))
iterEdges ==
    /\ \E fromVol \in VolIds \cup {None} :
          /\ cin' = Query("iterEdges", None, fromVol)
          /\ cout' = Answer(FALSE, IterEdges(diffs.val, fromVol))
    /\ UNCHANGED <<prefix, bucket, diffs, vols, last, notQuery>>

InitOfQuery ==
    /\ InitQuery
    /\ InitIdleUpload

NextQuery ==
    \/ hasEdge
    \/ iterEdges

SpecQuery == InitOfQuery /\ [][NextQuery]_vars

\* --------------------------------------------------------------------------
\* SpecCodec: Structure.write, then Structure.read of what was written
\* --------------------------------------------------------------------------

\* The structures of the model. The first has the shape of the docstring's
\* s2: (t.u16, 'foo'), (t.u8, 'bar', n, t.readString, t.writeString),
\* (s1, 'foobar') with s1 = Structure((t.char, 'char1')).
Descriptors ==
    { <<Field("H", 1, "none"), Field("B", 3, "string"),
        Nested(<<Field("c", 1, "none")>>)>>,
      <<Field("B", 1, "none"), Field("x", 2, "none"), Field("B", 2, "none")>>,
      <<Nested(<<Field("H", 1, "none"), Field("x", 1, "none")>>),
        Field("B", 2, "string")>>,
      <<Field("B", 3, "none"), Field("c", 1, "none")>>,
      <<Field("H", 2, "none"), Field("B", 1, "none")>>,
      <<>> }

\* The values a mapping may give a field; VNone is the omitted entry
\* (keyArgs.get(name, None) does not tell the two apart).
RECURSIVE ValueSeqs(_)
FieldValues(f) ==
    {VNone} \cup
    CASE f.typeDef = "Structure" -> {VDict(vs) : vs \in ValueSeqs(f.sub)}
      [] f.typeDef = "x" -> {}
      [] f.len # 1 /\ f.rw = "string" ->
            {VText(t) : t \in SeqsUpTo({0, 97, 233}, MaxTextLen)}
      [] f.len # 1 -> {VBytes(b) : b \in SeqsUpTo({0, 97}, MaxTextLen)}
      [] f.typeDef = "c" -> {VBytes(<<0>>), VBytes(<<97>>)}
      [] f.typeDef = "H" -> {VInt(0), VInt(258), VInt(65535)}
      [] OTHER -> {VInt(0), VInt(1), VInt(255)}

ValueSeqs(fields) ==
    IF fields = <<>> THEN {<<>>}
    ELSE {<<v>> \o r : v \in FieldValues(Head(fields)), r \in ValueSeqs(Tail(fields))}

NoResult == [phase |-> "none", ok |-> TRUE, err |-> "none", data |-> <<>>,
             value |-> VNone]

InitCodec ==
    /\ \E fields \in Descriptors :
          cin \in {[fields |-> fields, keyArgs |-> VDict(vs)] : vs \in ValueSeqs(fields)}
    /\ cout = NoResult

\* structure = Structure(*fields); cout.value is structure.size
Construct ==
    /\ cout.phase = "none"
    /\ LET n == StructNew(cin.fields)
       IN  cout' = [phase |-> "built", ok |-> n.ok, err |-> n.err,
                    data |-> <<>>, value |-> VInt(n.size)]
    /\ UNCHANGED <<cin, notCodec>>

\* data = structure.write(keyArgs)
CallWrite ==
    /\ cout.phase = "built"
    /\ cout.ok
    /\ LET w == StructWrite(cin.fields, cin.keyArgs)
       IN  cout' = [phase |-> "written", ok |-> w.ok, err |-> w.err,
                    data |-> w.data, value |-> VNone]
    /\ UNCHANGED <<cin, notCodec>>

\* values = structure.read(data)
CallRead ==
    /\ cout.phase = "written"
    /\ cout.ok
    /\ LET r == StructRead(cin.fields, cout.data)
       IN  cout' = [phase |-> "read", ok |-> r.ok, err |-> r.err,
                    data |-> cout.data, value |-> r.value]
    /\ UNCHANGED <<cin, notCodec>>

InitOfCodec ==
    /\ InitCodec
    /\ InitIdleUpload
    /\ prefix = <<>>
    /\ InitIdleList

NextCodec ==
    \/ Construct
    \/ CallWrite
    \/ CallRead

SpecCodec == InitOfCodec /\ [][NextCodec]_vars

\* --------------------------------------------------------------------------
\* SpecIoc: Control._iocNumber on the tuples of the model
\* --------------------------------------------------------------------------

\* Values of a field of the given width: the ends, single bits, mixed bits.
FieldSamples(bits) == {0, 1, 2^(bits - 1), 2^bits - 2, 2^bits - 1}

IocTuples ==
    [dir : {NONE, WRITE, READ, 3}, type : FieldSamples(TYPEBITS),
     nr : FieldSamples(NRBITS), size : FieldSamples(SIZEBITS)]

InitIoc ==
    /\ cin \in IocTuples
    /\ cout = [phase |-> "none", code |-> <<>>]

\* self._iocNumber(direction, self.magic, op, structure.size)
MakeCode ==
    /\ cout.phase = "none"
    /\ cout' = [phase |-> "coded",
                code |-> iocNumber(cin.dir, cin.type, cin.nr, cin.size)]
    /\ UNCHANGED <<cin, notIoc>>

InitOfIoc ==
    /\ InitIoc
    /\ InitIdleUpload
    /\ prefix = <<>>
    /\ InitIdleList

NextIoc ==
    \/ MakeCode

SpecIoc == InitOfIoc /\ [][NextIoc]_vars

\* --------------------------------------------------------------------------
\* SpecBuilder: Control.IO / IOW / IOWR / IOR
\* --------------------------------------------------------------------------

\* Control.__init__ of a subclass that sets magic: structure.size is read,
\* an AttributeError if structure is None.
ControlNew(magic, direction, op, structure) ==
    IF structure.isNone
    THEN [ok |-> FALSE, err |-> "AttributeError", code |-> <<>>]
    ELSE [ok |-> TRUE, err |-> "none",
          code |-> iocNumber(direction, magic, op,
                             StructSize(ParseFields(structure.val).fmt))]

\* Control._IOC: control = cls(dir, op, structure); the function returned
\* calls it.
IOC(magic, dir, op, structure) == ControlNew(magic, dir, op, structure)

\* Control.IO: no structure is handed on, so _IOC's default None is used.
IO(magic, op) == IOC(magic, NONE, op, Unset(<<>>))
IOW(magic, op, structure) == IOC(magic, WRITE, op, structure)
IOWR(magic, op, structure) ==
    IOC(magic, Num(BitOr(Bits(READ), Bits(WRITE))), op, structure)
IOR(magic, op, structure) == IOC(magic, READ, op, structure)

\* The builders, the magic numbers and the operations of the model; the
\* structures are those that can be constructed.
Builders == {"IO", "IOW", "IOWR", "IOR"}
Magics == {0, 148, 255}
Ops == {0, 1, 255}

InitBuilder ==
    /\ cin \in [builder : Builders, magic : Magics, op : Ops,
                 fields : {d \in Descriptors : StructNew(d).ok}]
    /\ cout = [phase |-> "none", ok |-> TRUE, err |-> "none", code |-> <<>>]

\* do = Control.IO(op), or Control.IOW / IOWR / IOR(op, structure)
Build ==
    /\ cout.phase = "none"
    /\ LET s == Set(cin.fields)
           c == CASE cin.builder = "IO" -> IO(cin.magic, cin.op)
                  [] cin.builder = "IOW" -> IOW(cin.magic, cin.op, s)
                  [] cin.builder = "IOWR" -> IOWR(cin.magic, cin.op, s)
                  [] OTHER -> IOR(cin.magic, cin.op, s)
       IN  cout' = [phase |-> "bound", ok |-> c.ok, err |-> c.err, code |-> c.code]
    /\ UNCHANGED <<cin, notIoc>>

InitOfBuilder ==
    /\ InitBuilder
    /\ InitIdleUpload
    /\ prefix = <<>>
    /\ InitIdleList

NextBuilder ==
    \/ Build

SpecBuilder == InitOfBuilder /\ [][NextBuilder]_vars

\* --------------------------------------------------------------------------
\* SpecDevice: `with Device(path) as device:` around calls control(device)
\* --------------------------------------------------------------------------

\* The descriptors os.open may return.
Descriptors_fd == {3, 4, 5}

\* Device.__init__ has run (fd is None); the with statement is next.
InitDevice ==
    /\ pc = "with"
    /\ fd = Unset(0)
    /\ exc = "none"
    /\ outcome = Running
    /\ log = <<>>
    /\ diff = [uuid |-> None, previous |-> None, isSelf |-> FALSE]
    /\ stream = <<>>
    /\ pos = 0
    /\ data = <<>>
    /\ keyName = None
    /\ uploader = "None"
    /\ chunkCount = -1
    /\ visible = FALSE

\* Device.__enter__: os.open returns a descriptor, or raises and the scope
\* is never entered.
DeviceEnter ==
    /\ pc = "with"
    /\ \/ \E n \in Descriptors_fd :
             /\ log' = Append(log, Call("os.open", n, <<>>, TRUE))
             /\ fd' = Set(n)
             /\ pc' = "body"
             /\ UNCHANGED outcome
       \/ /\ log' = Append(log, Call("os.open", 0, <<>>, FALSE))
          /\ pc' = "done"
          /\ outcome' = Raised("OSError")
          /\ UNCHANGED fd
    /\ UNCHANGED <<exc, notDevice>>

\* Control.__call__ within the scope: structure.write, fcntl.ioctl on
\* device.fd, the assert on its return value, structure.read. Each may
\* raise, and the exception leaves the scope.
ControlCall ==
    /\ pc = "body"
    /\ Len(SelectSeq(log, LAMBDA c : c.op = "fcntl.ioctl")) < MaxIoctls
    /\ \/ /\ log' = Append(log, Call("fcntl.ioctl", fd.val, <<>>, TRUE))
          /\ \E e \in {"none", "AssertionError", "UnicodeDecodeError"} :
                /\ exc' = e
                /\ pc' = IF e = "none" THEN "body" ELSE "exit"
       \/ /\ log' = Append(log, Call("fcntl.ioctl", fd.val, <<>>, FALSE))
          /\ exc' = "IOError"
          /\ pc' = "exit"
       \/ /\ exc' = "AttributeError"
          /\ pc' = "exit"
          /\ UNCHANGED log
    /\ UNCHANGED <<fd, outcome, notDevice>>

\* The body of the with statement ends without an exception.
BodyEnds ==
    /\ pc = "body"
    /\ pc' = "exit"
    /\ UNCHANGED <<fd, exc, outcome, log, notDevice>>

\* Device.__exit__: os.close(self.fd), then self.fd = None; it returns None,
\* so an exception of the body goes on. If os.close raises, line 329 is not
\* reached and its exception is the one that leaves the scope.
DeviceExit ==
    /\ pc = "exit"
    /\ pc' = "done"
    /\ \/ /\ log' = Append(log, Call("os.close", fd.val, <<>>, TRUE))
          /\ fd' = Unset(0)
          /\ outcome' = IF exc = "none" THEN Returned ELSE Raised(exc)
       \/ /\ log' = Append(log, Call("os.close", fd.val, <<>>, FALSE))
          /\ outcome' = Raised("OSError")
          /\ UNCHANGED fd
    /\ UNCHANGED <<exc, notDevice>>

InitOfDevice ==
    /\ InitDevice
    /\ prefix = <<>>
    /\ InitIdleList
    /\ InitIdlePure

NextDevice ==
    \/ DeviceEnter
    \/ ControlCall
    \/ BodyEnds
    \/ DeviceExit

SpecDevice == InitOfDevice /\ [][NextDevice]_vars

\* --------------------------------------------------------------------------
\* Properties of receive / _upload (under Spec)
\* --------------------------------------------------------------------------

\* The entries of the log that are calls of op.
Calls(op) == SelectSeq(log, LAMBDA c : c.op = op)

\* How often op was called, and how often it returned normally.
Count(op) == Len(Calls(op))
CountOk(op) == Len(SelectSeq(log, LAMBDA c : c.op = op /\ c.ok))

\* A chunk upload failed.
UploadFailed == \E i \in 1..Len(log) : log[i].op = "upload_part" /\ ~log[i].ok

\* The stream was read to its end: a read returned no data.
Exhausted == \E i \in 1..Len(log) : log[i].op = "read" /\ log[i].ok /\ log[i].bytes = <<>>

\* The transaction was begun: initiate_multipart_upload returned.
Begun == CountOk("initiate_multipart_upload") = 1

\* C1: if a chunk upload fails (after any number of successful ones),
\* complete_upload is never called, no object becomes visible at the key and,
\* once _upload is left, cancel_upload has been called; if the stream is read
\* to its end with every chunk upload succeeding, cancel_upload is never
\* called and, once _upload is left, complete_upload was called exactly once.
C1_TransferAtomicity ==
    /\ UploadFailed =>
          /\ Count("complete_upload") = 0
          /\ ~visible
          /\ pc = "done" => Count("cancel_upload") = 1
    /\ (Exhausted /\ ~UploadFailed) =>
          /\ Count("cancel_upload") = 0
          /\ pc = "done" => Count("complete_upload") = 1

\* C1's case: the upload of a chunk failed after a chunk had been uploaded,
\* and receive has ended.
C1_Witness ==
    /\ pc = "done"
    /\ UploadFailed
    /\ CountOk("upload_part") >= 1
    /\ Count("cancel_upload") = 1

\* C2: for a transaction that was begun, when the upload scope has been left
\* (by a failed chunk upload, a failed read, an interrupt, or a failure of
\* the commit or abort call itself) exactly one of complete_upload and
\* cancel_upload has been called, exactly once; before that, and for a
\* transaction that was not begun, neither was called.
C2_ExactlyOneResolution ==
    LET n == Count("complete_upload") + Count("cancel_upload")
    IN  /\ (pc = "done" /\ Begun) => n = 1
        /\ (pc # "done" \/ ~Begun) => n = 0

\* C2's case: the abort call itself failed, after a failed read.
C2_Witness ==
    /\ pc = "done"
    /\ Begun
    /\ \E i \in 1..Len(log) : log[i].op = "read" /\ ~log[i].ok
    /\ \E i \in 1..Len(log) : log[i].op = "cancel_upload" /\ ~log[i].ok

\* C3: for a receive that transfers (C5 is the case that does not): when a
\* chunk upload failed, once receive has ended cancel_upload was called and
\* the caller sees the chunk upload's error; and receive returns normally
\* only when complete_upload succeeded.
C3_OriginatingError ==
    (pc = "done" /\ ~diff.isSelf) =>
        /\ UploadFailed =>
              /\ Count("cancel_upload") = 1
              /\ outcome = Raised("UploadError")
        /\ outcome = Returned => CountOk("complete_upload") = 1

\* The successful reads that returned data, and the chunk uploads, in order.
ChunksRead == SelectSeq(log, LAMBDA c : c.op = "read" /\ c.ok /\ c.bytes # <<>>)
PartsSent == Calls("upload_part")

\* How many entries of the first i of the log satisfy Test.
CountBefore(i, Test(_)) == Len(SelectSeq(SubSeq(log, 1, i - 1), Test))

\* C4: the k-th chunk read is uploaded as part k, numbering from 1; the
\* part numbers are 1, 2, 3, ... with no repeat; chunk k is uploaded before
\* chunk k+1 is read; the chunks are the stream cut at multiples of the
\* chunk size, in stream order.
C4_PartOrder ==
    /\ Len(PartsSent) <= Len(ChunksRead)
    /\ Len(ChunksRead) <= Len(PartsSent) + 1
    /\ \A k \in 1..Len(PartsSent) :
          /\ PartsSent[k].num = k
          /\ PartsSent[k].bytes = ChunksRead[k].bytes
          /\ PartsSent[k].bytes = ReadChunk(stream, (k - 1) * theChunkSize, theChunkSize)
    /\ \A i \in 1..Len(log) :
          /\ (log[i].op = "upload_part") =>
                CountBefore(i, LAMBDA c : c.op = "read" /\ c.ok /\ c.bytes # <<>>)
                  = CountBefore(i, LAMBDA c : c.op = "upload_part") + 1
          /\ (log[i].op = "read") =>
                CountBefore(i, LAMBDA c : c.op = "read" /\ c.ok /\ c.bytes # <<>>)
                  = CountBefore(i, LAMBDA c : c.op = "upload_part")

\* C4's case: two chunks were read and uploaded.
C4_Witness ==
    /\ Len(PartsSent) = 2
    /\ PartsSent[2].ok
    /\ PartsSent[1].bytes # PartsSent[2].bytes

\* C5: receive of a diff whose source is the receiving store returns at
\* once: the source stream is not opened, no transaction is begun, no chunk
\* is uploaded, nothing is committed or aborted, and the call returns
\* normally.
C5_SelfTransferNoop ==
    diff.isSelf =>
        /\ log = <<>>
        /\ uploader = "None"
        /\ ~visible
        /\ pc \in {"receive", "done"}
        /\ pc = "done" => outcome = Returned

\* C5's case: receive of such a diff has returned.
C5_Witness == diff.isSelf /\ pc = "done" /\ outcome = Returned

\* --------------------------------------------------------------------------
\* Properties of _listBucket and of the key names (under SpecList)
\* --------------------------------------------------------------------------

\* C6: on a store that holds a graph model, a listing that fails part-way
\* (the list call raises, or a key's name does not parse, after zero or more
\* keys were taken) leaves diffs and vols exactly as they were before the
\* call.
C6_FailedListingKeepsModel ==
    [][(~vols.isNone /\ last'.op = "list" /\ ~last'.ok)
          => (diffs' = diffs /\ vols' = vols)]_vars

\* C7: the name receive uploads a diff under parses back, under the same
\* prefix, into the diff's `to` and `from` (None for no parent); and after a
\* committed upload and a listing that went through, hasEdge(to, from) is
\* true.
C7_NamingRoundTrip ==
    /\ (last.op = "receive" /\ last.ok) =>
          LET name == KeyName(prefix, last.uuid, last.previous)
              d == DiffOf(prefix, [name |-> name, size |-> 1])
          IN  /\ Match(prefix, name).ok
              /\ d.to = last.uuid
              /\ d.from = last.previous
    /\ (last.op = "list" /\ last.ok /\ last.uuid # None) =>
          HasEdge(diffs.val, last.uuid, last.previous)

\* --------------------------------------------------------------------------
\* Properties of Structure.write / Structure.read (under SpecCodec)
\* --------------------------------------------------------------------------

\* The declared length of a byte-array field, in bytes.
FieldBytes(f) == f.len * CalcSize(f.typeDef)

IsNested(f) == f.typeDef = "Structure"
IsPadding(f) == f.typeDef = "x"
IsString(f) == f.typeDef # "Structure" /\ f.len # 1 /\ f.rw = "string"
IsByteArray(f) == f.typeDef \notin {"Structure", "x"} /\ f.len # 1 /\ f.rw = "none"

\* The mapping vs gives every field that carries a value an entry, nested
\* records included.
RECURSIVE Covers(_, _)
Covers(fields, vs) ==
    /\ Len(vs) = Len(fields)
    /\ \A i \in 1..Len(fields) :
          \/ IsPadding(fields[i])
          \/ /\ vs[i] # VNone
             /\ IsNested(fields[i]) => Covers(fields[i].sub, vs[i].sub)

\* The bytes the UTF-8 form of a text takes.
RECURSIVE EncLen(_)
EncLen(cps) ==
    IF cps = <<>> THEN 0
    ELSE (IF Head(cps) < 128 THEN 1 ELSE 2) + EncLen(Tail(cps))

\* The longest beginning of a text whose UTF-8 form fits n bytes.
RECURSIVE FitChars(_, _)
FitChars(cps, n) ==
    IF cps = <<>> THEN <<>>
    ELSE LET w == IF Head(cps) < 128 THEN 1 ELSE 2
         IN  IF w > n THEN <<>> ELSE <<Head(cps)>> \o FitChars(Tail(cps), n - w)

\* Cutting the text's UTF-8 form to n bytes cuts through a character.
Splits(cps, n) == EncLen(cps) > n /\ EncLen(FitChars(cps, n)) < n

\* Some string field of the mapping is cut through a character.
RECURSIVE AnySplit(_, _)
AnySplit(fields, vs) ==
    \E i \in 1..Len(fields) :
        \/ IsString(fields[i]) /\ Splits(vs[i].b, FieldBytes(fields[i]))
        \/ IsNested(fields[i]) /\ AnySplit(fields[i].sub, vs[i].sub)

\* What reading back is to give for the mapping vs. Byte arrays declared
\* with no reader come back cut or zero-filled to the declared length and
\* are trimmed only if trimRaw.
RECURSIVE ExpectedValues(_, _, _)
ExpectedValue(f, v, trimRaw) ==
    CASE IsNested(f) -> VDict(ExpectedValues(f.sub, v.sub, trimRaw))
      [] IsPadding(f) -> VNone
      [] IsString(f) -> VText(UpToNull(FitChars(v.b, FieldBytes(f))))
      [] IsByteArray(f) ->
            IF trimRaw THEN VBytes(UpToNull(Fit(v.b, FieldBytes(f))))
            ELSE VBytes(Fit(v.b, FieldBytes(f)))
      [] OTHER -> v

ExpectedValues(fields, vs, trimRaw) ==
    [i \in 1..Len(fields) |-> ExpectedValue(fields[i], vs[i], trimRaw)]

\* C8 as stated: for a mapping covering every field, read(write(v)) gives v
\* for integer and nested-record fields and, for every byte-array or string
\* field, v cut or filled to the declared length and trimmed at the first
\* null byte, field by field in declaration order.
C8_ClaimRoundTrip ==
    (cout.phase = "read" /\ Covers(cin.fields, cin.keyArgs.sub)) =>
        /\ cout.ok
        /\ cout.value = VDict(ExpectedValues(cin.fields, cin.keyArgs.sub, TRUE))

\* C8 as amended: for a mapping covering every field, read(write(v)) gives,
\* field by field in declaration order, v for integer, character and
\* nested-record fields; for a string field (t.readString/t.writeString) v
\* cut to the characters that fit the declared length and trimmed at the
\* first null; for a byte array declared with no reader v cut or zero-filled
\* to the declared length, not trimmed; None for padding. Where the cut of a
\* string field goes through a multi-byte character, read fails instead.
C8_RoundTrip ==
    (cout.phase = "read" /\ Covers(cin.fields, cin.keyArgs.sub)) =>
        IF AnySplit(cin.fields, cin.keyArgs.sub)
        THEN ~cout.ok
        ELSE /\ cout.ok
             /\ cout.value = VDict(ExpectedValues(cin.fields, cin.keyArgs.sub, FALSE))

\* C8's case: a structure with an integer, a string and a nested record was
\* written and read back, the string filling its field (its terminator is
\* cut off) and holding a null.
C8_Witness ==
    /\ cout.phase = "read"
    /\ cout.ok
    /\ Covers(cin.fields, cin.keyArgs.sub)
    /\ Len(cin.fields) = 3
    /\ IsString(cin.fields[2])
    /\ IsNested(cin.fields[3])
    /\ cin.keyArgs.sub[1] = VInt(258)
    /\ cin.keyArgs.sub[2] = VText(<<97, 0, 97>>)
    /\ cout.value.sub[2] = VText(<<97>>)

\* The mapping vs with every omitted entry replaced by its type's zero: 0,
\* the empty string, chr(0), a nested record of zeros.
RECURSIVE Filled(_, _)
FilledValue(f, v) ==
    CASE IsNested(f) ->
            VDict(Filled(f.sub, IF v = VNone THEN [i \in 1..Len(f.sub) |-> VNone]
                                ELSE v.sub))
      [] v # VNone -> v
      [] IsPadding(f) -> VNone
      [] IsString(f) -> VText(<<>>)
      [] IsByteArray(f) -> VBytes(<<>>)
      [] f.typeDef = "c" -> VBytes(<<0>>)
      [] OTHER -> VInt(0)

Filled(fields, vs) == [i \in 1..Len(fields) |-> FilledValue(fields[i], vs[i])]

\* C10: whatever entries the mapping omits, nested records included, write
\* succeeds, returns a buffer of exactly the structure's size, and the
\* buffer is the one written for the mapping with each omitted entry given
\* as its type's zero value.
C10_MissingEntriesDefault ==
    cout.phase = "written" =>
        /\ cout.ok
        /\ Len(cout.data) = StructSize(ParseFields(cin.fields).fmt)
        /\ cout.data = StructWrite(cin.fields,
                                   VDict(Filled(cin.fields, cin.keyArgs.sub))).data

\* --------------------------------------------------------------------------
\* Properties of Control._iocNumber (under SpecIoc)
\* --------------------------------------------------------------------------

\* The field of a code at the given shift under the given mask.
FieldAt(code, shift, mask) == Num(BitAnd(Shr(code, shift), Bits(mask)))

\* C9: for direction < 2^2, typeId < 2^8, opNumber < 2^8, size < 2^14, each
\* field is recovered from the code by shifting by its SHIFT and masking
\* with its MASK (nr at bit 0, type at bit 8, size at bit 16, direction at
\* bit 30), and no other tuple has the same code.
C9_IocNumberInjective ==
    cout.phase = "coded" =>
        /\ FieldAt(cout.code, NRSHIFT, NRMASK) = cin.nr
        /\ FieldAt(cout.code, TYPESHIFT, TYPEMASK) = cin.type
        /\ FieldAt(cout.code, SIZESHIFT, SIZEMASK) = cin.size
        /\ FieldAt(cout.code, DIRSHIFT, DIRMASK) = cin.dir
        /\ <<NRSHIFT, TYPESHIFT, SIZESHIFT, DIRSHIFT>> = <<0, 8, 16, 30>>
        /\ \A t \in IocTuples :
              iocNumber(t.dir, t.type, t.nr, t.size) = cout.code => t = cin

\* C9's case: the code of a tuple with every field at its largest value,
\* all 32 bits set.
C9_Witness ==
    /\ cout.phase = "coded"
    /\ cin = [dir |-> 3, type |-> 255, nr |-> 255, size |-> 16383]
    /\ cout.code = [i \in 1..32 |-> 1]

\* --------------------------------------------------------------------------
\* C11
\* --------------------------------------------------------------------------

\* A field with a len other than 1 whose typeDef is an integer wider than a
\* byte: neither a byte array (t.u8, t.char, "s", "p") nor padding ("x").
IsWideRepeat(f) == f.len > 1 /\ f.typeDef \notin {"Structure", "x", "s", "p", "B", "c"}

\* C11 as claimed: constructing a Structure with a field whose len is
\* greater than 1 and whose typeDef is neither a byte array nor padding
\* fails.
C11_ClaimWideRepeatRejected ==
    (cout.phase = "built" /\ \E i \in 1..Len(cin.fields) : IsWideRepeat(cin.fields[i]))
        => ~cout.ok

\* The bytes a structure of these fields takes: len times the width of the
\* typeDef for each field, those of nested structures included.
RECURSIVE TotalBytes(_)
TotalBytes(fields) ==
    IF fields = <<>> THEN 0
    ELSE LET f == Head(fields)
             w == IF f.typeDef = "H" THEN 2 ELSE 1
         IN  (IF f.typeDef = "Structure" THEN TotalBytes(f.sub) ELSE f.len * w)
                + TotalBytes(Tail(fields))

\* C11: constructing a Structure with at least one field goes through
\* whatever the len and typeDef of its fields: a field with a len other
\* than 1 takes len times the width of its typeDef (an integer wider than a
\* byte becomes a byte string of that many bytes), so the structure's size is
\* the sum of these.
C11_RepeatAccepted ==
    (cout.phase = "built" /\ cin.fields # <<>>) =>
        (cout.ok /\ cout.value = VInt(TotalBytes(cin.fields)))

\* A structure with (t.u16, name, 2) and (t.u8, name) was constructed: 5
\* bytes.
C11_Witness ==
    /\ cout.phase = "built"
    /\ cout.ok
    /\ IsWideRepeat(cin.fields[1])
    /\ cout.value = VInt(5)

\* --------------------------------------------------------------------------
\* C12 (under SpecList), C13, C14, C15 (under SpecQuery)
\* --------------------------------------------------------------------------

\* What a name of the form <prefix><to>/<from> stands for: `to` is what
\* follows the prefix up to the first "/", `from` is the rest, None if it
\* is the text "None".
NamedTo(p, name) == SubSeq(name, Len(p) + 1, FirstSlash(name, Len(p)) - 1)
NamedFrom(p, name) ==
    LET f == SubSeq(name, FirstSlash(name, Len(p)) + 1, Len(name))
    IN  IF f = NoneText THEN None ELSE f

\* C12: after a listing that went through, the store holds one edge per
\* listed key, in order, with the (from, to) the key's name stands for, and
\* the volumes are exactly the `to` of the edges.
C12_ListingBuildsGraph ==
    (last.op = "list" /\ last.ok) =>
        LET keys == Listed(bucket, prefix)
        IN  /\ Len(diffs.val) = Len(keys)
            /\ \A i \in 1..Len(keys) :
                  /\ diffs.val[i].to = NamedTo(prefix, keys[i].name)
                  /\ diffs.val[i].from = NamedFrom(prefix, keys[i].name)
            /\ {v.uuid : v \in vols.val} = {diffs.val[i].to : i \in 1..Len(diffs.val)}

\* The places of the diffs whose `from` is f, and the k-th of them.
Matching(ds, f) == {i \in 1..Len(ds) : ds[i].from = f}
Kth(ds, f, k) ==
    CHOOSE i \in Matching(ds, f) : Cardinality({j \in Matching(ds, f) : j <= i}) = k

\* C13: iterEdges(fromId) yields one edge per diff whose `from` is fromId
\* (None included), in listing order and no other edge; and the call leaves
\* the listing as it was.
C13_IterEdgesExact ==
    /\ [](cin.op = "iterEdges" =>
            /\ Len(cout.edges) = Cardinality(Matching(diffs.val, cin.from))
            /\ \A k \in 1..Len(cout.edges) :
                  LET d == diffs.val[Kth(diffs.val, cin.from, k)]
                  IN  cout.edges[k].to = d.to /\ cout.edges[k].size = d.size)
    /\ [][cin'.op = "iterEdges" => (diffs' = diffs /\ vols' = vols)]_vars

\* iterEdges(None) has yielded two edges in listing order from a listing
\* of two full snapshots of different volumes.
C13_Witness ==
    /\ cin.op = "iterEdges"
    /\ cin.from = None
    /\ Len(cout.edges) = 2
    /\ cout.edges[1].to = <<"W">>
    /\ cout.edges[2].to = <<"V">>

\* C14: hasEdge(toId, fromId) is true exactly if some diff has that `to`
\* and that `from` (None included), and the call leaves the listing as it
\* was.
C14_HasEdgeIff ==
    /\ [](cin.op = "hasEdge" =>
            (cout.found <=>
                \E d \in {diffs.val[i] : i \in 1..Len(diffs.val)} :
                    d.to = cin.to /\ d.from = cin.from))
    /\ [][cin'.op = "hasEdge" => (diffs' = diffs /\ vols' = vols)]_vars

\* hasEdge has answered false for a volume that is listed, but under
\* another parent than the one asked for.
C14_Witness ==
    /\ cin.op = "hasEdge"
    /\ ~cout.found
    /\ cin.from = None
    /\ \E i \in 1..Len(diffs.val) : diffs.val[i].to = cin.to

\* C15 as claimed: the size of a listed diff is the object's byte size.
C15_ClaimSizeInBytes ==
    \A i \in 1..Len(diffs.val) :
        diffs.val[i].size.num = Listed(bucket, prefix)[i].size * diffs.val[i].size.den

\* C15: the size of a listed diff is the object's byte size divided by
\* 2**20 (the size in MB, a fraction for a smaller object), and iterEdges
\* returns that size in each edge.
C15_SizeInMB ==
    /\ \A i \in 1..Len(diffs.val) :
          diffs.val[i].size.num * 2^20 = Listed(bucket, prefix)[i].size * diffs.val[i].size.den
    /\ cin.op = "iterEdges" =>
          \A k \in 1..Len(cout.edges) :
              cout.edges[k].size = diffs.val[Kth(diffs.val, cin.from, k)].size

\* iterEdges has returned an edge of an object of 2**10 bytes.
C15_Witness ==
    /\ cin.op = "iterEdges"
    /\ \E k \in 1..Len(cout.edges) :
          cout.edges[k].size.num = 2^10 /\ cout.edges[k].size.den = 2^20

\* --------------------------------------------------------------------------
\* C16 (under SpecDevice)
\* --------------------------------------------------------------------------

\* The calls of os.open that returned a descriptor; the calls of os.close.
Opened == SelectSeq(log, LAMBDA c : c.op = "os.open" /\ c.ok)
Closes == SelectSeq(log, LAMBDA c : c.op = "os.close")

\* C16: a descriptor is closed only if it was opened; and once the scope
\* is left, on whatever path, the descriptor that was opened has been closed
\* exactly once and Device.fd is None.
C16_DeviceClosedOnExit ==
    /\ \A i \in 1..Len(Closes) : Len(Opened) = 1 /\ Closes[i].num = Opened[1].num
    /\ pc = "done" => (fd.isNone /\ Len(Closes) = Len(Opened))

\* --------------------------------------------------------------------------
\* C17, C19, C20 (under Spec)
\* --------------------------------------------------------------------------

\* The bytes of a sequence of calls, one after the other.
RECURSIVE BytesOf(_)
BytesOf(calls) ==
    IF calls = <<>> THEN <<>> ELSE Head(calls).bytes \o BytesOf(Tail(calls))

\* ceil(n / c)
CeilDiv(n, c) == (n + c - 1) \div c

\* C17: a transfer of a stream of n > 0 bytes that returned has uploaded
\* ceil(n / theChunkSize) chunks, each of theChunkSize bytes but the last,
\* which holds the rest; the chunks one after the other are the stream; and
\* one complete_upload followed them, with no cancel_upload.
C17_ChunkCount ==
    (outcome = Returned /\ ~diff.isSelf /\ Len(stream) > 0) =>
        LET n == Len(stream)
            k == CeilDiv(n, theChunkSize)
        IN  /\ Len(PartsSent) = k
            /\ \A i \in 1..Len(PartsSent) :
                  /\ PartsSent[i].ok
                  /\ Len(PartsSent[i].bytes) =
                        IF i < k THEN theChunkSize ELSE n - theChunkSize * (k - 1)
            /\ BytesOf(PartsSent) = stream
            /\ Count("complete_upload") = 1
            /\ log[Len(log)].op = "complete_upload"
            /\ Count("cancel_upload") = 0

\* A stream one byte longer than a chunk was transferred in two parts, the
\* second of one byte.
C17_Witness ==
    /\ outcome = Returned
    /\ Len(stream) = theChunkSize + 1
    /\ Len(PartsSent) = 2
    /\ Len(PartsSent[2].bytes) = 1

\* The scope was left early for another reason than a failed chunk upload.
EndedEarly == exc \in {"ReadError", "KeyboardInterrupt"}

\* C19: when stream.read raises or an interrupt is raised between two
\* chunks, no chunk is uploaded from then on and complete_upload is never
\* called; and once receive is over cancel_upload was called, once, and no
\* object is visible.
C19_EarlyExitAborts ==
    /\ [][EndedEarly => (PartsSent' = PartsSent /\ Count("complete_upload")' = 0)]_vars
    /\ []((EndedEarly /\ pc = "done") =>
            /\ Count("cancel_upload") = 1
            /\ Count("complete_upload") = 0
            /\ ~visible
            /\ outcome.kind = "raised")

\* An interrupt after a first chunk was uploaded: the upload was cancelled.
C19_Witness ==
    /\ pc = "done"
    /\ exc = "KeyboardInterrupt"
    /\ Len(PartsSent) = 1
    /\ PartsSent[1].ok
    /\ CountOk("cancel_upload") = 1

\* No call failed and no interrupt was raised.
Undisturbed == exc = "none" /\ \A i \in 1..Len(log) : log[i].ok

\* C20: a transfer of an empty stream in which nothing fails begins an
\* upload and commits it without a part: one initiate_multipart_upload, no
\* upload_part, one complete_upload, no cancel_upload, and receive returns.
C20_EmptyStreamCommits ==
    (pc = "done" /\ ~diff.isSelf /\ stream = <<>> /\ Undisturbed) =>
        /\ outcome = Returned
        /\ Count("initiate_multipart_upload") = 1
        /\ Count("upload_part") = 0
        /\ Count("complete_upload") = 1
        /\ Count("cancel_upload") = 0
        /\ visible

\* The empty stream was read once and its upload committed.
C20_Witness ==
    /\ pc = "done"
    /\ stream = <<>>
    /\ outcome = Returned
    /\ Count("read") = 1
    /\ CountOk("complete_upload") = 1

\* --------------------------------------------------------------------------
\* C18 (under SpecBuilder)
\* --------------------------------------------------------------------------

\* The direction a builder stands for.
DirectionOf(builder) ==
    CASE builder = "IO" -> 0
      [] builder = "IOW" -> 1
      [] builder = "IOR" -> 2
      [] OTHER -> 3

\* C18: each of IO, IOW, IOR, IOWR returns a bound operation whose code has
\* the direction NONE, WRITE, READ, READ|WRITE and whose size field is the
\* size of its structure; IO(op) goes through, with the size field 0.
C18_BuildersBind ==
    cout.phase = "bound" =>
        /\ cout.ok
        /\ FieldAt(cout.code, DIRSHIFT, DIRMASK) = DirectionOf(cin.builder)
        /\ FieldAt(cout.code, SIZESHIFT, SIZEMASK) =
              IF cin.builder = "IO" THEN 0 ELSE TotalBytes(cin.fields)
        /\ FieldAt(cout.code, TYPESHIFT, TYPEMASK) = cin.magic
        /\ FieldAt(cout.code, NRSHIFT, NRMASK) = cin.op

=============================================================================
